---- MODULE Spec2Model ----
(***************************************************************************)
(* Model of the jamiat-tracker MCP server (src/server.py) and its demo     *)
(* client (src/client.py).                                                 *)
(*                                                                         *)
(* Python strings are sequences of one-character strings, so that          *)
(* str.lower, str.replace, f-string formatting, json.dumps and float() are *)
(* modelled by what they do to the characters.  The two non-ASCII          *)
(* characters of the source are written "U+274C" and "U+2022".  A Python   *)
(* dict is a sequence of <<key, value>> pairs in insertion order.          *)
(***************************************************************************)
EXTENDS Integers, Sequences, FiniteSets, TLC

VARIABLES
    PROJECTS,   \* the module-level table, server.py:37
    tools,      \* names registered by @mcp.tool(), in registration order
    resources,  \* URIs registered by @mcp.resource()
    prompts,    \* names registered by @mcp.prompt()
    routes,     \* paths reachable on the FastAPI app
    spc,        \* server: index of the next registration statement of the module
    serving,    \* server: the lifespan has started and requests are accepted
    pc,         \* per execution context: "idle", "run", "done"
    op,         \* per context: the handler being run
    args,       \* per context: the argument mapping of the call
    it,         \* per context: position of the for-loop over PROJECTS.items()
    loc,        \* per context: the handler's local variables
    ret,        \* per context: <<"return", string>> or <<"raise", exception>>
    cpc,        \* client.py: position in main()
    clientTools \* client.py: result.tools of list_tools()

vars == <<PROJECTS, tools, resources, prompts, routes, spc, serving, pc, op, args, it, loc, ret, cpc, clientTools>>

-----------------------------------------------------------------------------
(* Bounds of the model. *)

\* number of concurrent execution contexts serving tool calls
NumContexts == 2

Contexts == 1..NumContexts

-----------------------------------------------------------------------------
(* Python str *)

\* the None object: not a str (no str has a character "NoneType")
None == <<"NoneType">>

UpperCase == <<"A", "B", "C", "D", "E", "F", "G", "H", "I", "J", "K", "L", "M", "N", "O", "P", "Q", "R", "S", "T", "U", "V", "W", "X", "Y", "Z">>
LowerCase == <<"a", "b", "c", "d", "e", "f", "g", "h", "i", "j", "k", "l", "m", "n", "o", "p", "q", "r", "s", "t", "u", "v", "w", "x", "y", "z">>

\* one character of str.lower()
lower_char(ch) ==
    IF \E i \in 1..Len(UpperCase) : UpperCase[i] = ch
    THEN LowerCase[CHOOSE i \in 1..Len(UpperCase) : UpperCase[i] = ch]
    ELSE ch

\* str.lower()
lower(s) == [i \in 1..Len(s) |-> lower_char(s[i])]

\* s[i:] starts with sub
StartsAt(s, sub, i) ==
    /\ i + Len(sub) - 1 <= Len(s)
    /\ \A j \in 1..Len(sub) : s[i + j - 1] = sub[j]

\* sub in s
Contains(s, sub) == \E i \in 1..(Len(s) + 1) : StartsAt(s, sub, i)

RECURSIVE replace_from(_, _, _, _)
replace_from(s, old, new, i) ==
    IF i > Len(s) THEN <<>>
    ELSE IF StartsAt(s, old, i) THEN new \o replace_from(s, old, new, i + Len(old))
    ELSE <<s[i]>> \o replace_from(s, old, new, i + 1)

\* str.replace(old, new) for a non-empty old: every non-overlapping
\* occurrence, left to right
replace(s, old, new) == replace_from(s, old, new, 1)

RECURSIVE join(_, _)
\* sep.join(parts)
join(sep, parts) ==
    IF parts = <<>> THEN <<>>
    ELSE IF Len(parts) = 1 THEN parts[1]
    ELSE parts[1] \o sep \o join(sep, Tail(parts))

\* repr() of a str without quotes, backslashes or non-printing characters
repr_str(s) == <<"'">> \o s \o <<"'">>

\* format of an optional str in an f-string: str(None) is "None"
fmt(v) == IF v = None THEN <<"N", "o", "n", "e">> ELSE v

\* repr() of a list of str
repr_list(xs) ==
    <<"[">> \o join(<<",", " ">>, [i \in 1..Len(xs) |-> repr_str(xs[i])]) \o <<"]">>

-----------------------------------------------------------------------------
(* Python dict, insertion-ordered *)

\* list(d.keys())
keys(d) == [i \in 1..Len(d) |-> d[i][1]]

has_key(d, k) == \E i \in 1..Len(d) : d[i][1] = k

\* d.get(k): the value, or None
get(d, k) == IF has_key(d, k) THEN d[CHOOSE i \in 1..Len(d) : d[i][1] = k][2] ELSE None

\* d[k]
item(d, k) == d[CHOOSE i \in 1..Len(d) : d[i][1] = k][2]

\* d[k] = v: replaces the value in place, or appends a new key
set_item(d, k, v) ==
    IF has_key(d, k)
    THEN [i \in 1..Len(d) |-> IF d[i][1] = k THEN <<k, v>> ELSE d[i]]
    ELSE Append(d, <<k, v>>)

RECURSIVE dict_of(_)
\* a dict display {k1: v1, k2: v2, ...}: later duplicates overwrite
dict_of(pairs) ==
    IF pairs = <<>> THEN <<>>
    ELSE set_item(dict_of(SubSeq(pairs, 1, Len(pairs) - 1)),
                  pairs[Len(pairs)][1], pairs[Len(pairs)][2])

-----------------------------------------------------------------------------
(* The data, server.py:37-43 *)

K_name == <<"n", "a", "m", "e">>
K_website == <<"w", "e", "b", "s", "i", "t", "e", " ", "s", "t", "a", "t", "u", "s">>
K_dashboard == <<"d", "a", "s", "h", "b", "o", "a", "r", "d", " ", "s", "t", "a", "t", "u", "s">>
K_platform == <<"d", "e", "p", "l", "o", "y", "m", "e", "n", "t", " ", "p", "l", "a", "t", "f", "o", "r", "m">>
K_cost == <<"c", "o", "s", "t">>

record(name, website, dashboard, platform, cost) ==
    dict_of(<< <<K_name, name>>, <<K_website, website>>, <<K_dashboard, dashboard>>,
               <<K_platform, platform>>, <<K_cost, cost>> >>)

\* the table with a cost that is no amount
PROJECTS_malformed_cost ==
    dict_of(<<
      <<<<"j", "a", "m", "i", "a", "t">>, record(<<"J", "a", "m", "i", "a", "t">>, <<"l", "i", "v", "e">>, <<"l", "i", "v", "e">>, <<"V", "e", "r", "c", "e", "l">>, <<"$", "2", "0", "/", "m", "o">>)>>,
      <<<<"s", "a", "m", "a">>, record(<<"S", "A", "M", "A">>, <<"l", "i", "v", "e">>, <<"d", "e", "v", "e", "l", "o", "p", "m", "e", "n", "t">>, <<"V", "e", "r", "c", "e", "l">>, <<"$", "2", "0", "/", "m", "o">>)>>,
      <<<<"s", "a", "f", "e">>, record(<<"S", "A", "F", "E">>, <<"l", "i", "v", "e">>, <<"l", "i", "v", "e">>, <<"V", "e", "r", "c", "e", "l">>, <<"$", "2", "0", "/", "m", "o">>)>>,
      <<<<"n", "e", "x", "t">>, record(<<"N", "E", "X", "T">>, <<"l", "i", "v", "e">>, <<"d", "e", "v", "e", "l", "o", "p", "m", "e", "n", "t">>, <<"V", "e", "r", "c", "e", "l">>, <<"T", "B", "D">>)>>,
      <<<<"h", "a", "m", "q", "a", "d", "a", "m">>, record(<<"H", "a", "m", "q", "a", "d", "a", "m">>, <<"l", "i", "v", "e">>, <<"l", "i", "v", "e">>, <<"V", "e", "r", "c", "e", "l", " ", "+", " ", "S", "a", "n", "i", "t", "y">>, <<"$", "4", "5", "/", "m", "o">>)>>
    >>)

PROJECTS_literal ==
    dict_of(<<
      <<<<"j", "a", "m", "i", "a", "t">>, record(<<"J", "a", "m", "i", "a", "t">>, <<"l", "i", "v", "e">>, <<"l", "i", "v", "e">>, <<"V", "e", "r", "c", "e", "l">>, <<"$", "2", "0", "/", "m", "o">>)>>,
      <<<<"s", "a", "m", "a">>, record(<<"S", "A", "M", "A">>, <<"l", "i", "v", "e">>, <<"d", "e", "v", "e", "l", "o", "p", "m", "e", "n", "t">>, <<"V", "e", "r", "c", "e", "l">>, <<"$", "2", "0", "/", "m", "o">>)>>,
      <<<<"s", "a", "f", "e">>, record(<<"S", "A", "F", "E">>, <<"l", "i", "v", "e">>, <<"l", "i", "v", "e">>, <<"V", "e", "r", "c", "e", "l">>, <<"$", "2", "0", "/", "m", "o">>)>>,
      <<<<"n", "e", "x", "t">>, record(<<"N", "E", "X", "T">>, <<"l", "i", "v", "e">>, <<"d", "e", "v", "e", "l", "o", "p", "m", "e", "n", "t">>, <<"V", "e", "r", "c", "e", "l">>, <<"$", "2", "0", "/", "m", "o">>)>>,
      <<<<"h", "a", "m", "q", "a", "d", "a", "m">>, record(<<"H", "a", "m", "q", "a", "d", "a", "m">>, <<"l", "i", "v", "e">>, <<"l", "i", "v", "e">>, <<"V", "e", "r", "c", "e", "l", " ", "+", " ", "S", "a", "n", "i", "t", "y">>, <<"$", "4", "5", "/", "m", "o">>)>>
    >>)

-----------------------------------------------------------------------------
(* json.dumps(obj, indent=2) for str and dict values *)

json_escape_char(ch) ==
    IF ch = "\"" THEN <<"\\", "\"">>
    ELSE IF ch = "\\" THEN <<"\\", "\\">>
    ELSE IF ch = "\n" THEN <<"\\", "n">>
    ELSE <<ch>>

RECURSIVE json_escape(_)
json_escape(s) == IF s = <<>> THEN <<>> ELSE json_escape_char(Head(s)) \o json_escape(Tail(s))

json_str(s) == <<"\"">> \o json_escape(s) \o <<"\"">>

RECURSIVE spaces(_)
spaces(n) == IF n = 0 THEN <<>> ELSE <<" ">> \o spaces(n - 1)

\* a dict of str values, written at nesting depth `level`
json_dict(d, level) ==
    IF d = <<>> THEN <<"{", "}">>
    ELSE <<"{", "\n">>
         \o join(<<",", "\n">>,
                 [i \in 1..Len(d) |->
                    spaces(2 * (level + 1)) \o json_str(d[i][1]) \o <<":", " ">> \o json_str(d[i][2])])
         \o <<"\n">> \o spaces(2 * level) \o <<"}">>

\* json.dumps(d, indent=2), d a dict of str -> str
json_dumps(d) == json_dict(d, 0)

\* json.dumps(d, indent=2), d a dict of str -> dict of str -> str
json_dumps_nested(d) ==
    IF d = <<>> THEN <<"{", "}">>
    ELSE <<"{", "\n">>
         \o join(<<",", "\n">>,
                 [i \in 1..Len(d) |->
                    spaces(2) \o json_str(d[i][1]) \o <<":", " ">> \o json_dict(d[i][2], 1)])
         \o <<"\n", "}">>

-----------------------------------------------------------------------------
(* Python float: IEEE-754 binary64, round to nearest, ties to even.        *)
(* A float is [neg, e, m]: m is the 53-bit significand, most significant   *)
(* bit first and equal to 1, and the value is m * 2^(e - 52).  Zero has    *)
(* m = <<>>.  Exponents stay far inside the normal range for the amounts   *)
(* modelled (below 2^30, with at most four fractional digits).             *)

zeros(n) == [i \in 1..n |-> 0]

\* without leading zero bits
strip(b) ==
    LET ones == {i \in 1..Len(b) : b[i] = 1}
    IN  IF ones = {} THEN <<>>
        ELSE SubSeq(b, CHOOSE i \in ones : \A j \in ones : i <= j, Len(b))

RECURSIVE bits_value(_, _)
\* the number written by the first i bits of b (i at most 16 here)
bits_value(b, i) == IF i = 0 THEN 0 ELSE 2 * bits_value(b, i - 1) + b[i]

\* v in n bits
to_bits(v, n) == [i \in 1..n |-> (v \div 2^(n - i)) % 2]

RECURSIVE add_bits(_, _, _)
\* a + b + carry, a and b of one length; 16 bits at a time from the right
add_bits(a, b, carry) ==
    LET n == Len(a) IN
    IF n <= 16
    THEN LET s == bits_value(a, n) + bits_value(b, n) + carry
         IN  (IF s >= 2^n THEN <<1>> ELSE <<>>) \o to_bits(s % 2^n, n)
    ELSE LET s == bits_value(SubSeq(a, n - 15, n), 16) + bits_value(SubSeq(b, n - 15, n), 16) + carry
         IN  add_bits(SubSeq(a, 1, n - 16), SubSeq(b, 1, n - 16), s \div 2^16)
             \o to_bits(s % 2^16, 16)

RECURSIVE sub_bits(_, _, _)
\* a - b - borrow, a and b of one length, a >= b
sub_bits(a, b, borrow) ==
    LET n == Len(a) IN
    IF n <= 16
    THEN to_bits(bits_value(a, n) - bits_value(b, n) - borrow, n)
    ELSE LET s == bits_value(SubSeq(a, n - 15, n), 16) - bits_value(SubSeq(b, n - 15, n), 16) - borrow
         IN  sub_bits(SubSeq(a, 1, n - 16), SubSeq(b, 1, n - 16), IF s < 0 THEN 1 ELSE 0)
             \o to_bits((s + 2^16) % 2^16, 16)

\* a < b, a and b of one length
less_bits(a, b) ==
    LET diff == {i \in 1..Len(a) : a[i] # b[i]}
    IN  diff # {} /\ a[CHOOSE i \in diff : \A j \in diff : i <= j] = 0

FloatZero == [neg |-> FALSE, e |-> 0, m |-> <<>>]

\* the float nearest to bits * 2^lsb (ties to even); bits has no leading zero
round_bits(neg, bits, lsb) ==
    LET L == Len(bits) IN
    IF L = 0 THEN FloatZero
    ELSE IF L <= 53 THEN [neg |-> neg, e |-> lsb + L - 1, m |-> bits \o zeros(53 - L)]
    ELSE LET keep == SubSeq(bits, 1, 53)
             half == bits[54]
             sticky == \E i \in 55..L : bits[i] = 1
             up == half = 1 /\ (sticky \/ keep[53] = 1)
             inc == add_bits(keep, zeros(52) \o <<1>>, 0)
         IN  IF ~up THEN [neg |-> neg, e |-> lsb + L - 1, m |-> keep]
             ELSE IF Len(inc) = 54 THEN [neg |-> neg, e |-> lsb + L, m |-> SubSeq(inc, 1, 53)]
             ELSE [neg |-> neg, e |-> lsb + L - 1, m |-> inc]

\* x + y
float_add(x, y) ==
    IF x.m = <<>> THEN y
    ELSE IF y.m = <<>> THEN x
    ELSE LET lx == x.e - 52
             ly == y.e - 52
             lsb == IF lx < ly THEN lx ELSE ly
             ax == x.m \o zeros(lx - lsb)
             ay == y.m \o zeros(ly - lsb)
             n == IF Len(ax) > Len(ay) THEN Len(ax) ELSE Len(ay)
             bx == zeros(n - Len(ax)) \o ax
             by == zeros(n - Len(ay)) \o ay
         IN  IF x.neg = y.neg THEN round_bits(x.neg, add_bits(bx, by, 0), lsb)
             ELSE IF less_bits(bx, by) THEN round_bits(y.neg, strip(sub_bits(by, bx, 0)), lsb)
             ELSE IF bx = by THEN FloatZero
             ELSE round_bits(x.neg, strip(sub_bits(bx, by, 0)), lsb)

\* x >= 0
float_nonneg(x) == x.m = <<>> \/ ~x.neg

\* a natural number below 2^30 in binary
nat_bits(n) ==
    LET L == CHOOSE k \in 0..30 : n < 2^k /\ (k = 0 \/ 2^(k - 1) <= n)
    IN  to_bits(n, L)

RECURSIVE pow2mod(_, _)
\* 2^i modulo scale
pow2mod(i, scale) ==
    IF i = 0 THEN 1 % scale
    ELSE LET h == pow2mod(i \div 2, scale)
         IN  IF i % 2 = 0 THEN (h * h) % scale ELSE (2 * ((h * h) % scale)) % scale

\* the first n bits of r / scale after the binary point, then a bit that is
\* 1 when bits remain (scale at most 10^4, so that products stay in range)
frac_bits(r, scale, n) ==
    [i \in 1..(n + 1) |->
        IF i <= n THEN (2 * ((r * pow2mod(i - 1, scale)) % scale)) \div scale
        ELSE IF (r * pow2mod(n, scale)) % scale = 0 THEN 0 ELSE 1]

RECURSIVE lead_zeros(_, _)
\* the number of zero bits of r / scale after the binary point, 0 < r < scale
lead_zeros(r, scale) == IF 2 * r >= scale THEN 0 ELSE 1 + lead_zeros(2 * r, scale)

\* the float nearest to q + r / scale, 0 <= r < scale
float_of_decimal(neg, q, r, scale) ==
    LET ib == nat_bits(q)
        n == IF q > 0 THEN (IF Len(ib) >= 54 THEN 1 ELSE 54 - Len(ib))
             ELSE IF r = 0 THEN 0 ELSE lead_zeros(r, scale) + 54
    IN  IF q = 0 /\ r = 0 THEN FloatZero
        ELSE IF r = 0 THEN round_bits(neg, ib, 0)
        ELSE round_bits(neg, strip(ib \o frac_bits(r, scale, n)), 0 - (n + 1))

Digits == <<"0", "1", "2", "3", "4", "5", "6", "7", "8", "9">>

is_digit(ch) == \E i \in 1..10 : Digits[i] = ch

digit_value(ch) == (CHOOSE i \in 1..10 : Digits[i] = ch) - 1

RECURSIVE digits_value(_)
digits_value(s) ==
    IF s = <<>> THEN 0 ELSE 10 * digits_value(SubSeq(s, 1, Len(s) - 1)) + digit_value(s[Len(s)])

pow10(k) == 10^k

\* float(s) for s of the form [sign] digits [. digits], and ValueError for
\* the other strings drawn here (none has whitespace, an exponent, an
\* underscore, or spells inf or nan)
float_parse(s) ==
    LET signed == s # <<>> /\ s[1] \in {"+", "-"}
        neg == s # <<>> /\ s[1] = "-"
        t == IF signed THEN Tail(s) ELSE s
        dots == {i \in 1..Len(t) : t[i] = "."}
        p == IF dots = {} THEN Len(t) + 1 ELSE CHOOSE i \in dots : TRUE
        ip == SubSeq(t, 1, p - 1)
        fp == SubSeq(t, p + 1, Len(t))
        wellformed == /\ Cardinality(dots) <= 1
                      /\ \A i \in 1..Len(t) : i \in dots \/ is_digit(t[i])
                      /\ Len(ip) + Len(fp) >= 1
    IN  IF wellformed
        THEN [ok |-> TRUE,
              v |-> float_of_decimal(neg, digits_value(ip), digits_value(fp), pow10(Len(fp)))]
        ELSE [ok |-> FALSE, v |-> FloatZero]

\* the whole part of |x|, below 2^30
float_whole(x) ==
    IF x.m = <<>> \/ x.e < 0 THEN 0
    ELSE LET b == SubSeq(x.m, 1, x.e + 1)
             n == Len(b)
         IN  IF n <= 15 THEN bits_value(b, n)
             ELSE bits_value(SubSeq(b, 1, n - 15), n - 15) * 2^15 + bits_value(SubSeq(b, n - 14, n), 15)

RECURSIVE nat_str(_)
\* str(n) for a natural number
nat_str(n) == IF n < 10 THEN <<Digits[n + 1]>> ELSE nat_str(n \div 10) \o <<Digits[(n % 10) + 1]>>

\* the first 14 bits of |x| after the binary point, as a number
float_frac14(x) ==
    LET fb == IF x.e >= 0 THEN SubSeq(x.m, x.e + 2, 53) \o zeros(14) ELSE zeros(0 - x.e - 1) \o x.m
    IN  bits_value(SubSeq(fb, 1, 14), 14)

\* repr(x), the shortest decimal numeral that float() reads back as x, for
\* |x| in [0.01, 2^30).  When no numeral with at most two fractional digits
\* reads back as x the numeral has 15 to 17 significant digits; its
\* fractional digits are then written as one element that names x.
float_repr(x) ==
    LET w == float_whole(x)
        sign == IF x.neg THEN <<"-">> ELSE <<>>
        h0 == (100 * float_frac14(x)) \div 2^14
        two == {h \in {h0, h0 + 1} \cap 0..99 : float_of_decimal(x.neg, w, h, 100) = x}
    IN  IF x.m = <<>> THEN <<"0", ".", "0">>
        ELSE IF two # {}
             THEN LET h == CHOOSE f \in two : TRUE
                  IN  sign \o nat_str(w) \o <<".", Digits[(h \div 10) + 1]>>
                      \o (IF h % 10 = 0 THEN <<>> ELSE <<Digits[(h % 10) + 1]>>)
        ELSE sign \o nat_str(w) \o <<".", ToString(x.m)>>

\* a Python number: the int 0, or a float
IntZero == [type |-> "int", v |-> FloatZero]

Float(x) == [type |-> "float", v |-> x]

\* a + b: int + int is an int, anything else a float
num_add(a, b) ==
    IF a.type = "int" /\ b.type = "int" THEN IntZero ELSE Float(float_add(a.v, b.v))

\* str(a), as an f-string formats it
num_str(a) == IF a.type = "int" THEN <<"0">> ELSE float_repr(a.v)

-----------------------------------------------------------------------------
(* The handlers, server.py:51-146.  The statements of a handler that touch *)
(* no shared data run as one step; every iteration of a loop over          *)
(* PROJECTS.items() is a step of its own.                                   *)

Return(s) == [kind |-> "return", value |-> s]
Raise(e) == [kind |-> "raise", value |-> e]
NoResult == [kind |-> "none", value |-> <<>>]

NoArgs == [project_id |-> None, website_status |-> None, dashboard_status |-> None]

NoLocals == [summary |-> <<>>, total |-> IntZero, breakdown |-> <<>>, matches |-> <<>>]

\* get_project looking the id up as given, without lower()
get_project_result_exact(table, project_id) ==
    LET project == get(table, project_id)
    IN  IF project = None \/ project = <<>>
        THEN Return(<<"U+274C", " ", "P", "r", "o", "j", "e", "c", "t", " ", "'">> \o project_id \o <<"'", " ", "n", "o", "t", " ", "f", "o", "u", "n", "d", ".", " ", "A", "v", "a", "i", "l", "a", "b", "l", "e", ":", " ">>
                    \o repr_list(keys(table)))
        ELSE Return(json_dumps(project))

\* get_project subscripting the table, PROJECTS[project_id.lower()], which
\* raises KeyError for an unknown id
get_project_result_subscript(table, project_id) ==
    IF has_key(table, lower(project_id))
    THEN Return(json_dumps(item(table, lower(project_id))))
    ELSE Raise(<<"K", "e", "y", "E", "r", "r", "o", "r">>)

\* get_project: lines 63-66
get_project_result(table, project_id) ==
    LET project == get(table, lower(project_id))
    IN  IF project = None \/ project = <<>>
        THEN Return(<<"U+274C", " ", "P", "r", "o", "j", "e", "c", "t", " ", "'">> \o project_id \o <<"'", " ", "n", "o", "t", " ", "f", "o", "u", "n", "d", ".", " ", "A", "v", "a", "i", "l", "a", "b", "l", "e", ":", " ">>
                    \o repr_list(keys(table)))
        ELSE Return(json_dumps(project))

\* list_projects: the line appended at line 77
list_projects_line(pid, info) ==
    <<"U+2022", " ">> \o item(info, K_name) \o <<" ", "(">> \o pid \o <<")", " ", "-", " ">> \o item(info, K_website)
    \o <<" ", "-", " ">> \o item(info, K_dashboard) \o <<" ", "-", " ">> \o item(info, K_platform)
    \o <<" ", "-", " ">> \o item(info, K_cost)

\* list_projects: line 78
list_projects_result(summary) == Return(join(<<"\n">>, summary))

\* get_total_cost: line 90
cost_str_of(info) == replace(replace(item(info, K_cost), <<"$">>, <<>>), <<"/", "m", "o">>, <<>>)

\* get_total_cost: line 91; [ok, v], not ok when float() raises ValueError
cost_of(cost_str) ==
    IF cost_str # <<"0">>
    THEN LET f == float_parse(cost_str) IN [ok |-> f.ok, v |-> Float(f.v)]
    ELSE [ok |-> TRUE, v |-> IntZero]

\* get_total_cost: the line appended at line 93
breakdown_line(info) == <<" ", " ">> \o item(info, K_name) \o <<":", " ">> \o item(info, K_cost)

\* get_total_cost: lines 95-98
get_total_cost_result(total, breakdown) ==
    Return(<<"M", "o", "n", "t", "h", "l", "y", " ", "H", "o", "s", "t", "i", "n", "g", " ", "B", "r", "e", "a", "k", "d", "o", "w", "n", ":", "\n">> \o join(<<"\n">>, breakdown)
           \o <<"\n", "\n", "T", "o", "t", "a", "l", ":", " ", "$">> \o num_str(total) \o <<"/", "m", "o">>)

\* search_by_status keeping a record when either filter matches
status_match_either(info, website_status, dashboard_status) ==
    LET website_match ==
            website_status = None \/ lower(item(info, K_website)) = lower(website_status)
        dashboard_match ==
            dashboard_status = None \/ lower(item(info, K_dashboard)) = lower(dashboard_status)
    IN  website_match \/ dashboard_match

\* search_by_status: lines 111-113
status_match(info, website_status, dashboard_status) ==
    LET website_match ==
            website_status = None \/ lower(item(info, K_website)) = lower(website_status)
        dashboard_match ==
            dashboard_status = None \/ lower(item(info, K_dashboard)) = lower(dashboard_status)
    IN  website_match /\ dashboard_match

\* search_by_status without the test for an empty result
search_by_status_result_always_json(matches, website_status, dashboard_status) ==
    Return(json_dumps_nested(matches))

\* search_by_status: lines 116-118
search_by_status_result(matches, website_status, dashboard_status) ==
    IF matches = <<>>
    THEN Return(<<"N", "o", " ", "p", "r", "o", "j", "e", "c", "t", "s", " ", "f", "o", "u", "n", "d", " ", "w", "i", "t", "h", " ", "w", "e", "b", "s", "i", "t", "e", "_", "s", "t", "a", "t", "u", "s", "=", "'">> \o fmt(website_status)
                \o <<"'", ",", " ", "d", "a", "s", "h", "b", "o", "a", "r", "d", "_", "s", "t", "a", "t", "u", "s", "=", "'">> \o fmt(dashboard_status) \o <<"'">>)
    ELSE Return(json_dumps_nested(matches))

\* all_projects_resource: line 130
all_projects_resource_result(table) == Return(json_dumps_nested(table))

\* monthly_report: lines 140-146
monthly_report_result(table) ==
    Return(<<"Y", "o", "u", " ", "a", "r", "e", " ", "t", "h", "e", " ", "I", "T", " ", "D", "e", "p", "a", "r", "t", "m", "e", "n", "t", " ", "M", "a", "n", "a", "g", "e", "r", " ", "a", "t", " ", "J", "a", "m", "i", "a", "t", ".", " ", "\n", "G", "e", "n", "e", "r", "a", "t", "e", " ", "a", " ", "p", "r", "o", "f", "e", "s", "s", "i", "o", "n", "a", "l", " ", "m", "o", "n", "t", "h", "l", "y", " ", "s", "t", "a", "t", "u", "s", " ", "r", "e", "p", "o", "r", "t", " ", "b", "a", "s", "e", "d", " ", "o", "n", " ", "t", "h", "i", "s", " ", "p", "r", "o", "j", "e", "c", "t", " ", "d", "a", "t", "a", ":", "\n">>
           \o json_dumps_nested(table)
           \o <<"\n", "\n", "I", "n", "c", "l", "u", "d", "e", ":", " ", "E", "x", "e", "c", "u", "t", "i", "v", "e", " ", "s", "u", "m", "m", "a", "r", "y", ",", " ", "p", "e", "r", "-", "p", "r", "o", "j", "e", "c", "t", " ", "u", "p", "d", "a", "t", "e", "s", ",", " ", "h", "o", "s", "t", "i", "n", "g", " ", "c", "o", "s", "t", "s", ",", " ", "a", "n", "d", " ", "n", "e", "x", "t", " ", "m", "o", "n", "t", "h", "'", "s", " ", "p", "r", "i", "o", "r", "i", "t", "i", "e", "s", ".", "\n", "K", "e", "e", "p", " ", "i", "t", " ", "c", "o", "n", "c", "i", "s", "e", " ", "a", "n", "d", " ", "p", "r", "o", "f", "e", "s", "s", "i", "o", "n", "a", "l", ".">>)

LoopOps == {"list_projects", "get_total_cost", "search_by_status"}

\* next() on the iterator of PROJECTS.items(): the dict iterator raises
\* RuntimeError when the dict changed size since the loop began
iter_next(c) ==
    IF Len(PROJECTS) # it[c].size THEN "changed"
    ELSE IF it[c].pos > Len(PROJECTS) THEN "stop"
    ELSE "item"

\* handlers whose accumulators are module-level names: a new invocation
\* resets them under every invocation in progress
Begin_shared_locals(c, o, a) ==
    /\ serving
    /\ pc[c] = "idle"
    /\ \E i \in 1..Len(tools \o resources \o prompts) : (tools \o resources \o prompts)[i] = o
    /\ pc' = [pc EXCEPT ![c] = "run"]
    /\ op' = [op EXCEPT ![c] = o]
    /\ args' = [args EXCEPT ![c] = a]
    /\ it' = [it EXCEPT ![c] = [pos |-> 1, size |-> Len(PROJECTS)]]
    /\ loc' = [d \in Contexts |-> NoLocals]
    /\ ret' = [ret EXCEPT ![c] = NoResult]
    /\ UNCHANGED <<PROJECTS, tools, resources, prompts, routes, spc, serving>>

\* the transport hands a request to a handler: the handler's first
\* statements run, up to and including the creation of the loop's iterator
Begin(c, o, a) ==
    /\ serving
    /\ pc[c] = "idle"
    /\ \E i \in 1..Len(tools \o resources \o prompts) : (tools \o resources \o prompts)[i] = o
    /\ pc' = [pc EXCEPT ![c] = "run"]
    /\ op' = [op EXCEPT ![c] = o]
    /\ args' = [args EXCEPT ![c] = a]
    /\ it' = [it EXCEPT ![c] = [pos |-> 1, size |-> Len(PROJECTS)]]
    /\ loc' = [loc EXCEPT ![c] = NoLocals]
    /\ ret' = [ret EXCEPT ![c] = NoResult]
    /\ UNCHANGED <<PROJECTS, tools, resources, prompts, routes, spc, serving>>

\* a handler returns or raises
Finish(c, r) ==
    /\ pc' = [pc EXCEPT ![c] = "done"]
    /\ ret' = [ret EXCEPT ![c] = r]
    /\ UNCHANGED <<op, args, it, loc>>

\* get_project taking the record out of the table, PROJECTS.pop(...)
get_project_pop(c) ==
    /\ pc[c] = "run" /\ op[c] = "get_project"
    /\ Finish(c, get_project_result(PROJECTS, args[c].project_id))
    /\ PROJECTS' = SelectSeq(PROJECTS, LAMBDA e : e[1] # lower(args[c].project_id))
    /\ UNCHANGED <<tools, resources, prompts, routes, spc, serving>>

get_project(c) ==
    /\ pc[c] = "run" /\ op[c] = "get_project"
    /\ Finish(c, get_project_result(PROJECTS, args[c].project_id))
    /\ UNCHANGED <<PROJECTS, tools, resources, prompts, routes, spc, serving, cpc, clientTools>>

list_projects_loop(c) ==
    /\ pc[c] = "run" /\ op[c] = "list_projects"
    /\ iter_next(c) # "stop"
    /\ IF iter_next(c) = "changed" THEN Finish(c, Raise(<<"R", "u", "n", "t", "i", "m", "e", "E", "r", "r", "o", "r">>))
       ELSE LET pid == PROJECTS[it[c].pos][1]
                info == PROJECTS[it[c].pos][2]
            IN  /\ loc' = [loc EXCEPT ![c].summary = Append(@, list_projects_line(pid, info))]
                /\ it' = [it EXCEPT ![c].pos = @ + 1]
                /\ UNCHANGED <<pc, op, args, ret>>
    /\ UNCHANGED <<PROJECTS, tools, resources, prompts, routes, spc, serving, cpc, clientTools>>

list_projects_return(c) ==
    /\ pc[c] = "run" /\ op[c] = "list_projects"
    /\ iter_next(c) = "stop"
    /\ Finish(c, list_projects_result(loc[c].summary))
    /\ UNCHANGED <<PROJECTS, tools, resources, prompts, routes, spc, serving, cpc, clientTools>>

get_total_cost_loop(c) ==
    /\ pc[c] = "run" /\ op[c] = "get_total_cost"
    /\ iter_next(c) # "stop"
    /\ IF iter_next(c) = "changed" THEN Finish(c, Raise(<<"R", "u", "n", "t", "i", "m", "e", "E", "r", "r", "o", "r">>))
       ELSE LET info == PROJECTS[it[c].pos][2]
                cost == cost_of(cost_str_of(info))
            IN  IF cost.ok
                THEN /\ loc' = [loc EXCEPT ![c].total = num_add(@, cost.v),
                                           ![c].breakdown = Append(@, breakdown_line(info))]
                     /\ it' = [it EXCEPT ![c].pos = @ + 1]
                     /\ UNCHANGED <<pc, op, args, ret>>
                ELSE Finish(c, Raise(<<"V", "a", "l", "u", "e", "E", "r", "r", "o", "r">>))
    /\ UNCHANGED <<PROJECTS, tools, resources, prompts, routes, spc, serving, cpc, clientTools>>

get_total_cost_return(c) ==
    /\ pc[c] = "run" /\ op[c] = "get_total_cost"
    /\ iter_next(c) = "stop"
    /\ Finish(c, get_total_cost_result(loc[c].total, loc[c].breakdown))
    /\ UNCHANGED <<PROJECTS, tools, resources, prompts, routes, spc, serving, cpc, clientTools>>

search_by_status_loop(c) ==
    /\ pc[c] = "run" /\ op[c] = "search_by_status"
    /\ iter_next(c) # "stop"
    /\ IF iter_next(c) = "changed" THEN Finish(c, Raise(<<"R", "u", "n", "t", "i", "m", "e", "E", "r", "r", "o", "r">>))
       ELSE LET pid == PROJECTS[it[c].pos][1]
                info == PROJECTS[it[c].pos][2]
            IN  /\ loc' = IF status_match(info, args[c].website_status, args[c].dashboard_status)
                          THEN [loc EXCEPT ![c].matches = set_item(@, pid, info)]
                          ELSE loc
                /\ it' = [it EXCEPT ![c].pos = @ + 1]
                /\ UNCHANGED <<pc, op, args, ret>>
    /\ UNCHANGED <<PROJECTS, tools, resources, prompts, routes, spc, serving, cpc, clientTools>>

search_by_status_return(c) ==
    /\ pc[c] = "run" /\ op[c] = "search_by_status"
    /\ iter_next(c) = "stop"
    /\ Finish(c, search_by_status_result(loc[c].matches, args[c].website_status,
                                         args[c].dashboard_status))
    /\ UNCHANGED <<PROJECTS, tools, resources, prompts, routes, spc, serving, cpc, clientTools>>

all_projects_resource(c) ==
    /\ pc[c] = "run" /\ op[c] = "tracker://projects/all"
    /\ Finish(c, all_projects_resource_result(PROJECTS))
    /\ UNCHANGED <<PROJECTS, tools, resources, prompts, routes, spc, serving, cpc, clientTools>>

monthly_report(c) ==
    /\ pc[c] = "run" /\ op[c] = "monthly_report"
    /\ Finish(c, monthly_report_result(PROJECTS))
    /\ UNCHANGED <<PROJECTS, tools, resources, prompts, routes, spc, serving, cpc, clientTools>>

\* the transport sends the handler's result back; the context is free again
End(c) ==
    /\ pc[c] = "done"
    /\ pc' = [pc EXCEPT ![c] = "idle"]
    /\ op' = [op EXCEPT ![c] = "none"]
    /\ args' = [args EXCEPT ![c] = NoArgs]
    /\ it' = [it EXCEPT ![c] = [pos |-> 0, size |-> 0]]
    /\ loc' = [loc EXCEPT ![c] = NoLocals]
    /\ ret' = [ret EXCEPT ![c] = NoResult]
    /\ UNCHANGED <<PROJECTS, tools, resources, prompts, routes, spc, serving>>

-----------------------------------------------------------------------------
(* The server process: the registrations run when the module is imported,  *)
(* in the order of the source; the ASGI server then starts the lifespan    *)
(* (lines 165-171) and only then are requests accepted.                    *)

\* the module with the definitions of list_projects and get_total_cost in
\* the other order
ModuleStatements_reordered == <<
    [kind |-> "tool", name |-> "get_project"],
    [kind |-> "tool", name |-> "get_total_cost"],
    [kind |-> "tool", name |-> "list_projects"],
    [kind |-> "tool", name |-> "search_by_status"],
    [kind |-> "resource", name |-> "tracker://projects/all"],
    [kind |-> "prompt", name |-> "monthly_report"],
    [kind |-> "route", name |-> "/mcp"],
    [kind |-> "route", name |-> "/health"],
    [kind |-> "route", name |-> "/"] >>

ModuleStatements == <<
    [kind |-> "tool", name |-> "get_project"],
    [kind |-> "tool", name |-> "list_projects"],
    [kind |-> "tool", name |-> "get_total_cost"],
    [kind |-> "tool", name |-> "search_by_status"],
    [kind |-> "resource", name |-> "tracker://projects/all"],
    [kind |-> "prompt", name |-> "monthly_report"],
    [kind |-> "route", name |-> "/mcp"],
    [kind |-> "route", name |-> "/health"],
    [kind |-> "route", name |-> "/"] >>

\* the "tools" entry of the dict root() returns, line 213
root_tools == <<"get_project", "list_projects", "get_total_cost", "search_by_status">>

\* one decorator or mount of the module runs
Import ==
    /\ ~serving
    /\ spc <= Len(ModuleStatements)
    /\ LET s == ModuleStatements[spc]
       IN  /\ tools' = IF s.kind = "tool" THEN Append(tools, s.name) ELSE tools
           /\ resources' = IF s.kind = "resource" THEN Append(resources, s.name) ELSE resources
           /\ prompts' = IF s.kind = "prompt" THEN Append(prompts, s.name) ELSE prompts
           /\ routes' = IF s.kind = "route" THEN Append(routes, s.name) ELSE routes
    /\ spc' = spc + 1
    /\ UNCHANGED <<PROJECTS, serving, pc, op, args, it, loc, ret, cpc, clientTools>>

\* the module is imported and the lifespan starts
StartServing ==
    /\ ~serving
    /\ spc = Len(ModuleStatements) + 1
    /\ serving' = TRUE
    /\ UNCHANGED <<PROJECTS, tools, resources, prompts, routes, spc, pc, op, args, it, loc, ret,
                   cpc, clientTools>>

-----------------------------------------------------------------------------
(* client.py: main().  cpc counts the awaits completed: 1 after            *)
(* initialize(), 2 after list_tools(), then an odd value while a call_tool *)
(* is in flight and the next even value when its result has arrived.       *)

\* the execution context that serves the client's session
ClientContext == 1

ClientScript == <<
    [name |-> "get_project", args |-> [NoArgs EXCEPT !.project_id = <<"j", "a", "m", "i", "a", "t">>]],
    [name |-> "list_projects", args |-> NoArgs],
    [name |-> "get_total_cost", args |-> NoArgs],
    [name |-> "search_by_status",
     args |-> [NoArgs EXCEPT !.website_status = <<"l", "i", "v", "e">>, !.dashboard_status = <<"l", "i", "v", "e">>]] >>

ClientInitialize ==
    /\ serving
    /\ cpc = 0
    /\ cpc' = 1
    /\ UNCHANGED <<PROJECTS, tools, resources, prompts, routes, spc, serving, pc, op, args, it,
                   loc, ret, clientTools>>

ClientListTools ==
    /\ cpc = 1
    /\ cpc' = 2
    /\ clientTools' = tools
    /\ UNCHANGED <<PROJECTS, tools, resources, prompts, routes, spc, serving, pc, op, args, it,
                   loc, ret>>

ClientCallTool ==
    /\ cpc \in {2, 4, 6, 8}
    /\ LET call == ClientScript[cpc \div 2]
       IN  Begin(ClientContext, call.name, call.args)
    /\ cpc' = cpc + 1
    /\ UNCHANGED clientTools

ClientReceive ==
    /\ cpc \in {3, 5, 7, 9}
    /\ End(ClientContext)
    /\ cpc' = cpc + 1
    /\ UNCHANGED clientTools

-----------------------------------------------------------------------------
(* Other callers of the server *)

Invoke(c, o, a) == Begin(c, o, a) /\ UNCHANGED <<cpc, clientTools>>

Respond(c) == End(c) /\ UNCHANGED <<cpc, clientTools>>

Step(c) ==
    /\ \/ get_project(c)
       \/ list_projects_loop(c)
       \/ list_projects_return(c)
       \/ get_total_cost_loop(c)
       \/ get_total_cost_return(c)
       \/ search_by_status_loop(c)
       \/ search_by_status_return(c)
       \/ all_projects_resource(c)
       \/ monthly_report(c)
    /\ UNCHANGED <<cpc, clientTools>>

Request(o, project_id, website_status, dashboard_status) ==
    [op |-> o,
     args |-> [project_id |-> project_id, website_status |-> website_status,
               dashboard_status |-> dashboard_status]]

\* what the callers beside the client ask for
CallerRequests ==
    {Request("get_project", id, None, None) : id \in {<<"j", "a", "m", "i", "a", "t">>, <<"J", "A", "M", "I", "A", "T">>, <<"n", "o", "p", "e">>}}
    \cup {Request("search_by_status", None, f[1], f[2]) :
            f \in {<<None, None>>, <<<<"l", "i", "v", "e">>, <<"l", "i", "v", "e">>>>, <<<<"L", "I", "V", "E">>, <<"d", "e", "v", "e", "l", "o", "p", "m", "e", "n", "t">>>>,
                   <<<<"d", "e", "v">>, None>>}}
    \cup {Request(o, None, None, None) :
            o \in {"list_projects", "get_total_cost", "tracker://projects/all", "monthly_report"}}

Callers == Contexts \ {ClientContext}

Init ==
    /\ PROJECTS = PROJECTS_literal
    /\ tools = <<>> /\ resources = <<>> /\ prompts = <<>> /\ routes = <<>>
    /\ spc = 1
    /\ serving = FALSE
    /\ pc = [c \in Contexts |-> "idle"]
    /\ op = [c \in Contexts |-> "none"]
    /\ args = [c \in Contexts |-> NoArgs]
    /\ it = [c \in Contexts |-> [pos |-> 0, size |-> 0]]
    /\ loc = [c \in Contexts |-> NoLocals]
    /\ ret = [c \in Contexts |-> NoResult]
    /\ cpc = 0
    /\ clientTools = <<>>

Next ==
    \/ Import
    \/ StartServing
    \/ ClientInitialize
    \/ ClientListTools
    \/ ClientCallTool
    \/ ClientReceive
    \/ \E c \in Callers : \E r \in CallerRequests : Invoke(c, r.op, r.args)
    \/ \E c \in Contexts : Step(c)
    \/ \E c \in Callers : Respond(c)

Spec == Init /\ [][Next]_vars

-----------------------------------------------------------------------------
(* One caller at a time, with arguments drawn from larger sets.  The       *)
(* server starts in the state it has once StartServing has happened.       *)

RECURSIVE names_of(_, _)
\* the names the statements of one kind register, in order
names_of(kind, n) ==
    IF n = 0 THEN <<>>
    ELSE IF ModuleStatements[n].kind = kind
         THEN Append(names_of(kind, n - 1), ModuleStatements[n].name)
         ELSE names_of(kind, n - 1)

upper_char(ch) ==
    IF \E i \in 1..Len(LowerCase) : LowerCase[i] = ch
    THEN UpperCase[CHOOSE i \in 1..Len(LowerCase) : LowerCase[i] = ch]
    ELSE ch

RECURSIVE CaseVariants(_)
\* every spelling of s in upper and lower case letters
CaseVariants(s) ==
    IF s = <<>> THEN {<<>>}
    ELSE {<<ch>> \o r : ch \in {lower_char(s[1]), upper_char(s[1])}, r \in CaseVariants(Tail(s))}

\* strings that are no id of the table in any case
UnknownIds ==
    {<<"n", "o", "n", "e", "x", "i", "s", "t", "e", "n", "t">>, <<>>, <<"j", "a", "m", "i", "a">>, <<"j", "a", "m", "i", "a", "t", " ">>, <<"s", "a", "m", "a", "a">>, <<"N", "E", "X", "T", "!">>, <<"n", "o", "t", " ", "f", "o", "u", "n", "d">>, <<"x">>}

ProjectIds == UNION {CaseVariants(PROJECTS_literal[i][1]) : i \in 1..Len(PROJECTS_literal)} \cup UnknownIds

StatusFilters ==
    {None, <<"l", "i", "v", "e">>, <<"L", "I", "V", "E">>, <<"L", "i", "v", "e">>, <<"d", "e", "v", "e", "l", "o", "p", "m", "e", "n", "t">>, <<"D", "e", "v", "e", "l", "o", "p", "m", "e", "n", "t">>, <<"d", "e", "v">>, <<>>}

AllRequests ==
    {Request("get_project", id, None, None) : id \in ProjectIds}
    \cup {Request("search_by_status", None, w, d) : w \in StatusFilters, d \in StatusFilters}
    \cup {Request(o, None, None, None) :
            o \in {"list_projects", "get_total_cost", "tracker://projects/all", "monthly_report"}}

SoloCaller == CHOOSE c \in Callers : TRUE

InitServing ==
    /\ tools = names_of("tool", Len(ModuleStatements))
    /\ resources = names_of("resource", Len(ModuleStatements))
    /\ prompts = names_of("prompt", Len(ModuleStatements))
    /\ routes = names_of("route", Len(ModuleStatements))
    /\ spc = Len(ModuleStatements) + 1
    /\ serving = TRUE
    /\ pc = [c \in Contexts |-> "idle"]
    /\ op = [c \in Contexts |-> "none"]
    /\ args = [c \in Contexts |-> NoArgs]
    /\ it = [c \in Contexts |-> [pos |-> 0, size |-> 0]]
    /\ loc = [c \in Contexts |-> NoLocals]
    /\ ret = [c \in Contexts |-> NoResult]
    /\ cpc = 0
    /\ clientTools = <<>>

InitCalls == PROJECTS = PROJECTS_literal /\ InitServing

NextCalls ==
    \/ \E r \in AllRequests : Invoke(SoloCaller, r.op, r.args)
    \/ Step(SoloCaller)
    \/ Respond(SoloCaller)

SpecCalls == InitCalls /\ [][NextCalls]_vars

-----------------------------------------------------------------------------
(* get_total_cost on the table with the cost of one record changed *)

\* cost strings a record may be given: whole amounts, amounts with one or two
\* fractional digits, and one that float() rejects
CostStrings ==
    {<<"$", "2", "0", "/", "m", "o">>, <<"$", "4", "5", "/", "m", "o">>, <<"$", "2", "5", "/", "m", "o">>, <<"$", "0", "/", "m", "o">>, <<"$", "2", "0", ".", "5", "/", "m", "o">>, <<"$", "2", "0", ".", "1", "/", "m", "o">>, <<"$", "0", ".", "0", "4", "/", "m", "o">>,
     <<"$", "4", ".", "9", "9", "/", "m", "o">>, <<"$", "1", "9", ".", "9", "9", "/", "m", "o">>, <<"$", "0", ".", "1", "/", "m", "o">>, <<"$", "7", ".", "2", "5", "/", "m", "o">>, <<"$", "1", "2", "0", "/", "m", "o">>, <<"f", "r", "e", "e">>}

\* the table with the cost of record i set to s
with_cost(table, i, s) ==
    [table EXCEPT ![i] = <<table[i][1], set_item(table[i][2], K_cost, s)>>]

InitCost ==
    /\ PROJECTS \in {with_cost(PROJECTS_literal, i, s) :
                        i \in 1..Len(PROJECTS_literal), s \in CostStrings}
    /\ InitServing

NextCost ==
    \/ Invoke(SoloCaller, "get_total_cost", NoArgs)
    \/ get_total_cost_loop(SoloCaller) /\ UNCHANGED <<cpc, clientTools>>
    \/ get_total_cost_return(SoloCaller) /\ UNCHANGED <<cpc, clientTools>>
    \/ Respond(SoloCaller)

SpecCost == InitCost /\ [][NextCost]_vars

-----------------------------------------------------------------------------
(* A handler run alone, from its first statement to its return, on the     *)
(* table of the source                                                      *)

RECURSIVE total_alone(_, _)
\* get_total_cost's loop over the first n records: [ok, total]
total_alone(table, n) ==
    IF n = 0 THEN [ok |-> TRUE, total |-> IntZero]
    ELSE LET before == total_alone(table, n - 1)
             cost == cost_of(cost_str_of(table[n][2]))
         IN  IF before.ok /\ cost.ok
             THEN [ok |-> TRUE, total |-> num_add(before.total, cost.v)]
             ELSE [ok |-> FALSE, total |-> IntZero]

RECURSIVE matches_alone(_, _, _, _)
\* search_by_status's loop over the first n records
matches_alone(table, n, website_status, dashboard_status) ==
    IF n = 0 THEN <<>>
    ELSE LET before == matches_alone(table, n - 1, website_status, dashboard_status)
         IN  IF status_match(table[n][2], website_status, dashboard_status)
             THEN set_item(before, table[n][1], table[n][2])
             ELSE before

RunAlone(table, o, a) ==
    CASE o = "get_project" -> get_project_result(table, a.project_id)
      [] o = "list_projects" ->
            list_projects_result([i \in 1..Len(table) |->
                                    list_projects_line(table[i][1], table[i][2])])
      [] o = "get_total_cost" ->
            LET t == total_alone(table, Len(table))
            IN  IF t.ok
                THEN get_total_cost_result(t.total,
                                           [i \in 1..Len(table) |-> breakdown_line(table[i][2])])
                ELSE Raise(<<"V", "a", "l", "u", "e", "E", "r", "r", "o", "r">>)
      [] o = "search_by_status" ->
            search_by_status_result(
                matches_alone(table, Len(table), a.website_status, a.dashboard_status),
                a.website_status, a.dashboard_status)
      [] o = "tracker://projects/all" -> all_projects_resource_result(table)
      [] o = "monthly_report" -> monthly_report_result(table)

-----------------------------------------------------------------------------
(* Properties *)

Done(c, o) == pc[c] = "done" /\ op[c] = o

\* a and b are one string up to the case of their letters
SameIgnoringCase(a, b) ==
    /\ Len(a) = Len(b)
    /\ \A i \in 1..Len(a) :
          \/ a[i] = b[i]
          \/ \E j \in 1..Len(UpperCase) : {a[i], b[i]} = {UpperCase[j], LowerCase[j]}

\* C1: get_project with an id that is a key of the table in any upper/lower
\* case spelling returns the serialization of the record under that key, so
\* every spelling of one id gives the same result and every record is
\* reachable by its id.
C1_CaseInsensitiveLookup ==
    \A c \in Contexts : Done(c, "get_project") =>
        \A i \in 1..Len(PROJECTS) :
            SameIgnoringCase(args[c].project_id, PROJECTS[i][1])
            => ret[c] = Return(json_dumps(PROJECTS[i][2]))

C1_Witness ==
    \E c \in Contexts :
        /\ Done(c, "get_project")
        /\ args[c].project_id = <<"h", "A", "m", "Q", "a", "D", "a", "M">>
        /\ ret[c] = Return(json_dumps(PROJECTS[5][2]))

\* the text of v from its last "Available: " on
AvailablePart(v) ==
    LET at == {i \in 1..Len(v) : StartsAt(v, <<"A", "v", "a", "i", "l", "a", "b", "l", "e", ":", " ">>, i)}
    IN  IF at = {} THEN <<>>
        ELSE SubSeq(v, CHOOSE i \in at : \A j \in at : j <= i, Len(v))

\* C2: get_project with a string whose lower-cased form is no key of the
\* table does not raise; it returns a string that contains "not found" and
\* lists every key of the table.
C2_UnknownIdMessage ==
    \A c \in Contexts :
        (Done(c, "get_project") /\ ~has_key(PROJECTS, lower(args[c].project_id)))
        => /\ ret[c].kind = "return"
           /\ Contains(ret[c].value, <<"n", "o", "t", " ", "f", "o", "u", "n", "d">>)
           /\ \A i \in 1..Len(PROJECTS) :
                 Contains(AvailablePart(ret[c].value), <<"'">> \o PROJECTS[i][1] \o <<"'">>)

C2_Witness ==
    \E c \in Contexts :
        /\ Done(c, "get_project")
        /\ args[c].project_id = <<"n", "o", "n", "e", "x", "i", "s", "t", "e", "n", "t">>
        /\ ret[c].kind = "return"
        /\ Contains(ret[c].value, <<"n", "o", "t", " ", "f", "o", "u", "n", "d">>)

\* a supplied filter equals the field up to case; an absent one always passes
FilterPasses(filter, field) == filter = None \/ SameIgnoringCase(filter, field)

\* the entries of the table that pass both filters, in table order
Matching(website_status, dashboard_status) ==
    SelectSeq(PROJECTS,
              LAMBDA e : /\ FilterPasses(website_status, item(e[2], K_website))
                         /\ FilterPasses(dashboard_status, item(e[2], K_dashboard)))

\* C3: the records search_by_status returns are exactly those for which
\* every supplied filter equals the field case-insensitively; no arguments
\* gives every record; ("live", "live") gives the records with both fields
\* "live".
C3_SearchIsConjunction ==
    \A c \in Contexts : Done(c, "search_by_status") =>
        LET w == args[c].website_status
            d == args[c].dashboard_status
        IN  /\ loc[c].matches = Matching(w, d)
            /\ loc[c].matches # <<>> => ret[c] = Return(json_dumps_nested(Matching(w, d)))
            /\ (w = None /\ d = None) => loc[c].matches = PROJECTS
            /\ (w = <<"l", "i", "v", "e">> /\ d = <<"l", "i", "v", "e">>)
               => keys(loc[c].matches) = <<<<"j", "a", "m", "i", "a", "t">>, <<"s", "a", "f", "e">>, <<"h", "a", "m", "q", "a", "d", "a", "m">>>>

C3_Witness ==
    \E c \in Contexts :
        /\ Done(c, "search_by_status")
        /\ args[c].website_status = <<"L", "I", "V", "E">>
        /\ args[c].dashboard_status = <<"D", "e", "v", "e", "l", "o", "p", "m", "e", "n", "t">>
        /\ keys(loc[c].matches) = <<<<"s", "a", "m", "a">>, <<"n", "e", "x", "t">>>>

\* the amount of a cost string in hundredths, read as a decimal numeral
\* with at most two fractional digits; -1 for any other string
cents_of_text(t) ==
    LET dots == {i \in 1..Len(t) : t[i] = "."}
        p == IF dots = {} THEN Len(t) + 1 ELSE CHOOSE i \in dots : TRUE
        whole == SubSeq(t, 1, p - 1)
        frac == SubSeq(t, p + 1, Len(t))
    IN  IF /\ Cardinality(dots) <= 1
           /\ Len(whole) >= 1 /\ Len(frac) <= 2
           /\ \A i \in 1..Len(t) : i \in dots \/ is_digit(t[i])
        THEN 100 * digits_value(whole)
             + (IF Len(frac) = 1 THEN 10 * digits_value(frac) ELSE digits_value(frac))
        ELSE -1

\* the magnitude of a record's cost, in hundredths
cents_of_cost(info) ==
    cents_of_text(replace(replace(item(info, K_cost), <<"$">>, <<>>), <<"/", "m", "o">>, <<>>))

RECURSIVE sum_cents(_, _)
\* the sum of the magnitudes of the first n records, in hundredths
sum_cents(table, n) ==
    IF n = 0 THEN 0 ELSE sum_cents(table, n - 1) + cents_of_cost(table[n][2])

\* the numeral between "Total: $" and "/mo" in a result of get_total_cost
ReportedTotal(v) ==
    LET at == {i \in 1..Len(v) : StartsAt(v, <<"T", "o", "t", "a", "l", ":", " ", "$">>, i)}
        p == CHOOSE i \in at : \A j \in at : j <= i
    IN  SubSeq(v, p + 8, Len(v) - 3)

\* every cost of the table is an amount
CostsAreAmounts(table) == \A i \in 1..Len(table) : cents_of_cost(table[i][2]) >= 0

\* C4: the total get_total_cost reports is the sum of the magnitudes of the
\* records' costs, and with one record's cost changed by a delta the
\* reported total differs by exactly that delta from the total reported for
\* the table of the source.
C4_TotalIsSum ==
    \A c \in Contexts :
        (Done(c, "get_total_cost") /\ CostsAreAmounts(PROJECTS))
        => /\ ret[c].kind = "return"
           /\ cents_of_text(ReportedTotal(ret[c].value)) = sum_cents(PROJECTS, Len(PROJECTS))
           /\ cents_of_text(ReportedTotal(ret[c].value))
              - cents_of_text(ReportedTotal(RunAlone(PROJECTS_literal, "get_total_cost", NoArgs).value))
              = sum_cents(PROJECTS, Len(PROJECTS))
                - sum_cents(PROJECTS_literal, Len(PROJECTS_literal))

\* C5: no invocation of a tool, the resource or the prompt changes the
\* table, and two invocations of one handler with the same arguments give
\* the same output.
C5_TableUnchanged ==
    /\ PROJECTS = PROJECTS_literal
    /\ \A c, d \in Contexts :
          (pc[c] = "done" /\ pc[d] = "done" /\ op[c] = op[d] /\ args[c] = args[d])
          => ret[c] = ret[d]

C5_Witness ==
    \E c, d \in Contexts :
        /\ c # d
        /\ Done(c, "get_project") /\ Done(d, "get_project")
        /\ args[c] = args[d]
        /\ ret[c].kind = "return"

\* C6: under every interleaving of the steps of concurrent invocations, each
\* invocation returns what it returns when run alone.
C6_InterleavingInvisible ==
    \A c \in Contexts : pc[c] = "done" => ret[c] = RunAlone(PROJECTS_literal, op[c], args[c])

C6_Witness ==
    \E c, d \in Contexts :
        /\ c # d
        /\ pc[c] = "done" /\ op[c] \in LoopOps
        /\ pc[d] = "run" /\ op[d] \in LoopOps
        /\ it[d].pos \in 2..Len(PROJECTS)

\* v is the "no projects found" message for the filters w and d
NoMatchMessage(v, w, d) ==
    /\ StartsAt(v, <<"N", "o", " ", "p", "r", "o", "j", "e", "c", "t", "s", " ", "f", "o", "u", "n", "d">>, 1)
    /\ w # None => Contains(v, <<"w", "e", "b", "s", "i", "t", "e", "_", "s", "t", "a", "t", "u", "s", "=", "'">> \o w \o <<"'">>)
    /\ d # None => Contains(v, <<"d", "a", "s", "h", "b", "o", "a", "r", "d", "_", "s", "t", "a", "t", "u", "s", "=", "'">> \o d \o <<"'">>)

\* C8: when no record passes the filters search_by_status does not raise and
\* does not return an empty serialization: it returns a string that names
\* the supplied filter values, and it returns that message only then.
C8_NoMatchIsAMessage ==
    \A c \in Contexts : Done(c, "search_by_status") =>
        LET w == args[c].website_status
            d == args[c].dashboard_status
        IN  /\ ret[c].kind = "return"
            /\ ret[c].value # <<"{", "}">>
            /\ Matching(w, d) = <<>> <=> NoMatchMessage(ret[c].value, w, d)

C8_Witness ==
    \E c \in Contexts :
        /\ Done(c, "search_by_status")
        /\ args[c].website_status = <<"d", "e", "v">>
        /\ args[c].dashboard_status = None
        /\ NoMatchMessage(ret[c].value, <<"d", "e", "v">>, None)

\* C9: the four tools are registered once each, all before any request is
\* accepted; while the server serves, the registered tools are get_project,
\* list_projects, get_total_cost, search_by_status in that order, which is
\* the list root() advertises and the list the client has from list_tools
\* before its first call_tool.
C9_RegistrationOrder ==
    /\ \A i, j \in 1..Len(tools) : tools[i] = tools[j] => i = j
    /\ serving => /\ spc = Len(ModuleStatements) + 1
                  /\ tools = <<"get_project", "list_projects", "get_total_cost",
                               "search_by_status">>
                  /\ tools = root_tools
    /\ \A c \in Contexts : pc[c] # "idle" => serving
    /\ cpc >= 1 => serving
    /\ cpc >= 2 => clientTools = tools
    /\ pc[ClientContext] # "idle" => cpc >= 3

C9_Witness ==
    /\ serving
    /\ cpc = 3
    /\ clientTools = root_tools
    /\ pc[ClientContext] = "run" /\ op[ClientContext] = "get_project"

\* C10: the keys of the table are distinct and every record's cost, with "$"
\* and "/mo" removed, parses to an amount that is not negative; so
\* get_total_cost never raises, and its breakdown has one line per record,
\* in table order.
C10_TableWellFormed ==
    /\ \A i, j \in 1..Len(PROJECTS) : PROJECTS[i][1] = PROJECTS[j][1] => i = j
    /\ \A i \in 1..Len(PROJECTS) :
          LET cost == cost_of(cost_str_of(PROJECTS[i][2]))
          IN  cost.ok /\ float_nonneg(cost.v.v)
    /\ \A c \in Contexts : op[c] = "get_total_cost" =>
          /\ ret[c].kind # "raise"
          /\ pc[c] = "done" =>
                /\ Len(loc[c].breakdown) = Len(PROJECTS)
                /\ \A i \in 1..Len(PROJECTS) :
                      /\ Contains(loc[c].breakdown[i], item(PROJECTS[i][2], K_name))
                      /\ Contains(loc[c].breakdown[i], item(PROJECTS[i][2], K_cost))
                /\ Contains(ret[c].value, join(<<"\n">>, loc[c].breakdown))

C10_Witness ==
    \E c \in Contexts :
        /\ Done(c, "get_total_cost")
        /\ ret[c].kind = "return"
        /\ Len(loc[c].breakdown) = 5

====
